---- MODULE Spec2Model ----
(***************************************************************************)
(* A model of contracts/EncryptedHighLow.sol: the game ledger (createGame, *)
(* joinGame, claimCreator, claimWinnings) and the settlement engine        *)
(* (requestReveal, autoSettle, revealCallback, debugReveal, fairReveal,    *)
(* _completeSettlement, _autoDistributeRewards).                           *)
(*                                                                         *)
(* A transaction that reverts leaves the storage as it was, so every       *)
(* entry point is an action whose guard is "no require fails"; the revert  *)
(* reason of a call is the value of the entry point's ...Error operator,   *)
(* which walks the requires in the order of the code.                      *)
(*                                                                         *)
(* Amounts are counted in units that fit TLC's integers: MIN_STAKE, 0.001  *)
(* ether in the contract, is 2 units here, so that a stake can fall below  *)
(* the floor; no property depends on the ratio of the two floors.          *)
(***************************************************************************)
EXTENDS Integers, Sequences, FiniteSets, TLC

\* ---------------------------------------------------------------- bounds
\* identities 1..NumAddr (0 is the zero address)
NumAddr == 3
\* games that can be created
MaxGames == 2
\* block times after the shortest duration that the clock visits
MaxLate == 1

\* ------------------------------------------------------ program constants
MIN_CREATOR_REWARD == 1
MIN_STAKE == 2
MIN_DURATION == 60
BIG_THRESHOLD == 5
CHAIN_HARDHAT == 31337
CHAIN_GANACHE == 1337
CHAIN_SEPOLIA == 11155111

\* ------------------------------------------------------------ input sets
Addr == 1..NumAddr
GameIds == 0..(MaxGames - 1)
RequestIds == 0..(MaxGames - 1)
ChainIds == {CHAIN_HARDHAT, CHAIN_SEPOLIA}
Times == {0} \cup {MIN_DURATION + k : k \in 0..MaxLate}
EndTimes == {MIN_DURATION + k : k \in 0..MaxLate}
RewardPools == (MIN_CREATOR_REWARD - 1)..(MIN_CREATOR_REWARD + 1)
MinStakes == {MIN_STAKE - 1, MIN_STAKE}
Stakes == {MIN_STAKE - 1, MIN_STAKE}
Numbers == {5, 6}
Salts == {0, 1}
CommitSalts == {0}
Creators == {1}
GuessSeqs == UNION {[1..k -> BOOLEAN] : k \in 0..NumAddr}
CallbackIds == 0..MaxGames

\* ------------------------------------------------------- revert reasons
OK == "ok"
GameNotFound == "EncryptedHighLow: game not found"
EndTimeTooSoon == "EncryptedHighLow: end time too soon"
StakeFloorViolation == "EncryptedHighLow: min stake too low"
RewardFloorViolation == "EncryptedHighLow: reward too small"
FundingMismatch == "EncryptedHighLow: reward funding mismatch"
MatchClosed == "EncryptedHighLow: match already closed"
SettlementInProgress == "EncryptedHighLow: settlement in progress"
CreatorCannotJoin == "EncryptedHighLow: creator cannot join"
AlreadyJoined == "EncryptedHighLow: already joined"
InsufficientStake == "EncryptedHighLow: insufficient stake"
RoundStillActive == "EncryptedHighLow: round still active"
RoundActive == "EncryptedHighLow: round active"
AlreadySettled == "EncryptedHighLow: already settled"
RevealAlreadyPending == "EncryptedHighLow: reveal pending"
NoPendingReveal == "EncryptedHighLow: no pending reveal"
InvalidProof == "InvalidKMSSignatures"
DebugDisabled == "EncryptedHighLow: debug disabled"
MismatchGuessCount == "EncryptedHighLow: mismatch guesses"
UnauthorizedReveal == "EncryptedHighLow: only creator can reveal"
HashMismatch == "EncryptedHighLow: hash mismatch"
NotSettled == "EncryptedHighLow: not settled"
Unauthorized == "EncryptedHighLow: not creator"
AlreadyClaimed == "EncryptedHighLow: already claimed"
NotAChallenger == "EncryptedHighLow: not a challenger"
NotEligible == "EncryptedHighLow: not eligible"
NothingToClaim == "EncryptedHighLow: nothing to claim"
TransferFailed == "EncryptedHighLow: transfer failed"
ReentrantCall == "ReentrancyGuardReentrantCall"

\* ----------------------------------------------------------------- state
VARIABLES
    now,            \* block.timestamp
    chainid,        \* block.chainid
    nextGameId,     \* nextGameId
    games,          \* _games
    requestToGame,  \* _requestToGame
    oracle,         \* the decryption oracle: the cleartexts of each request
    balance,        \* address(this).balance
    paid,           \* what _safeTransfer has sent, per game and recipient
    rejecting,      \* the identities whose code refuses incoming value
    entered,        \* ReentrancyGuard: the guard is held
    inFlight        \* the transfers whose recipient's code is running

\* the state of the calls the contract makes to the identities it pays
callVars == <<rejecting, entered, inFlight>>

vars == <<now, chainid, nextGameId, games, requestToGame, oracle, balance, paid, rejecting, entered, inFlight>>

\* a Participant slot that was never written
ZeroParticipant ==
    [choice |-> FALSE, stake |-> 0, exists |-> FALSE, won |-> FALSE,
     claimed |-> FALSE, choiceRevealed |-> FALSE, guessedBig |-> FALSE]

\* a Game slot that was never written
ZeroGame ==
    [creator |-> 0, minStake |-> 0, endTime |-> 0, createdAt |-> 0,
     rewardPool |-> 0, totalPot |-> 0, secretNumber |-> 0,
     secretNumberHash |-> <<>>, revealPending |-> FALSE, settled |-> FALSE,
     autoSettleEnabled |-> FALSE, requestId |-> 0, revealedNumber |-> 0,
     numberIsBig |-> FALSE, winnersCount |-> 0, creatorShare |-> 0,
     payoutPerWinner |-> 0, creatorBonusRemainder |-> 0,
     creatorClaimed |-> FALSE, participantList |-> <<>>,
     participants |-> [a \in Addr |-> ZeroParticipant]]

\* keccak256(abi.encodePacked(number, salt)), taken collision free
keccak256Packed(number, salt) == <<number, salt>>

Init ==
    /\ now = 0
    /\ chainid \in ChainIds
    /\ nextGameId = 0
    /\ games = [id \in GameIds |-> ZeroGame]
    /\ requestToGame = [r \in RequestIds |-> 0]
    /\ oracle = <<>>
    /\ balance = 0
    /\ paid = [id \in GameIds |-> [a \in Addr |-> 0]]
    /\ rejecting = {}
    /\ entered = FALSE
    /\ inFlight = <<>>

\* modifier gameExists
gameExists(gameId) == gameId < nextGameId

totalGames == nextGameId

isLocalChain == chainid = CHAIN_HARDHAT \/ chainid = CHAIN_GANACHE

\* _safeTransfer to an identity whose code returns at once, with the ledger
\* of what each game paid to whom
safeTransfer(gameId, to, amount) ==
    /\ amount <= balance
    /\ to \notin rejecting
    /\ balance' = balance - amount
    /\ paid' = [paid EXCEPT ![gameId][to] = @ + amount]

\* --------------------------------------------------------------- ledger
\* a variant of createGameError that accepts an end time of exactly
\* now + MIN_DURATION
createGameErrorAtLeast(endTime, minStake, rewardPool, value) ==
    IF ~(endTime >= now + MIN_DURATION) THEN EndTimeTooSoon
    ELSE IF ~(minStake >= MIN_STAKE) THEN StakeFloorViolation
    ELSE IF ~(rewardPool >= MIN_CREATOR_REWARD) THEN RewardFloorViolation
    ELSE IF ~(value = rewardPool) THEN FundingMismatch
    ELSE OK

createGameError(endTime, minStake, rewardPool, value) ==
    IF ~(endTime > now + MIN_DURATION) THEN EndTimeTooSoon
    ELSE IF ~(minStake >= MIN_STAKE) THEN StakeFloorViolation
    ELSE IF ~(rewardPool >= MIN_CREATOR_REWARD) THEN RewardFloorViolation
    ELSE IF ~(value = rewardPool) THEN FundingMismatch
    ELSE OK

\* a variant of createGame that does not advance nextGameId
createGameReusesId(sender, secret, secretNumberHash, minStake, endTime, rewardPool, enableAutoSettle, value) ==
    /\ createGameError(endTime, minStake, rewardPool, value) = OK
    /\ games' = [games EXCEPT ![nextGameId] =
           [@ EXCEPT !.creator = sender,
                     !.minStake = minStake,
                     !.endTime = endTime,
                     !.createdAt = now,
                     !.rewardPool = rewardPool,
                     !.totalPot = rewardPool,
                     !.secretNumberHash = secretNumberHash,
                     !.secretNumber = secret,
                     !.autoSettleEnabled = enableAutoSettle]]
    /\ balance' = balance + value
    /\ UNCHANGED <<callVars, now, chainid, nextGameId, requestToGame, oracle, paid>>

createGame(sender, secret, secretNumberHash, minStake, endTime, rewardPool, enableAutoSettle, value) ==
    /\ createGameError(endTime, minStake, rewardPool, value) = OK
    /\ nextGameId' = nextGameId + 1
    /\ games' = [games EXCEPT ![nextGameId] =
           [@ EXCEPT !.creator = sender,
                     !.minStake = minStake,
                     !.endTime = endTime,
                     !.createdAt = now,
                     !.rewardPool = rewardPool,
                     !.totalPot = rewardPool,
                     !.secretNumberHash = secretNumberHash,
                     !.secretNumber = secret,
                     !.autoSettleEnabled = enableAutoSettle]]
    /\ balance' = balance + value
    /\ UNCHANGED <<callVars, now, chainid, requestToGame, oracle, paid>>

\* a variant of joinGameError without the already-joined require
joinGameErrorNoJoinedCheck(gameId, sender, value) ==
    IF ~gameExists(gameId) THEN GameNotFound
    ELSE IF ~(now < games[gameId].endTime) THEN MatchClosed
    ELSE IF ~(~games[gameId].revealPending /\ ~games[gameId].settled)
        THEN SettlementInProgress
    ELSE IF ~(sender # games[gameId].creator) THEN CreatorCannotJoin
    ELSE IF ~(value >= games[gameId].minStake) THEN InsufficientStake
    ELSE OK

\* a variant of joinGameError without the creator-cannot-join require
joinGameErrorNoCreatorCheck(gameId, sender, value) ==
    IF ~gameExists(gameId) THEN GameNotFound
    ELSE IF ~(now < games[gameId].endTime) THEN MatchClosed
    ELSE IF ~(~games[gameId].revealPending /\ ~games[gameId].settled)
        THEN SettlementInProgress
    ELSE IF games[gameId].participants[sender].exists THEN AlreadyJoined
    ELSE IF ~(value >= games[gameId].minStake) THEN InsufficientStake
    ELSE OK

joinGameError(gameId, sender, value) ==
    IF ~gameExists(gameId) THEN GameNotFound
    ELSE IF ~(now < games[gameId].endTime) THEN MatchClosed
    ELSE IF ~(~games[gameId].revealPending /\ ~games[gameId].settled)
        THEN SettlementInProgress
    ELSE IF ~(sender # games[gameId].creator) THEN CreatorCannotJoin
    ELSE IF games[gameId].participants[sender].exists THEN AlreadyJoined
    ELSE IF ~(value >= games[gameId].minStake) THEN InsufficientStake
    ELSE OK

\* a variant of joinGame that records the stake without adding it to the pot
joinGameKeepsPot(gameId, sender, guess, value) ==
    /\ joinGameError(gameId, sender, value) = OK
    /\ games' = [games EXCEPT ![gameId] =
           [@ EXCEPT !.participants[sender] =
                         [@ EXCEPT !.choice = guess,
                                   !.stake = value,
                                   !.exists = TRUE],
                     !.participantList = Append(@, sender)]]
    /\ balance' = balance + value
    /\ UNCHANGED <<callVars, now, chainid, nextGameId, requestToGame, oracle, paid>>

joinGame(gameId, sender, guess, value) ==
    /\ joinGameError(gameId, sender, value) = OK
    /\ games' = [games EXCEPT ![gameId] =
           [@ EXCEPT !.totalPot = @ + value,
                     !.participants[sender] =
                         [@ EXCEPT !.choice = guess,
                                   !.stake = value,
                                   !.exists = TRUE],
                     !.participantList = Append(@, sender)]]
    /\ balance' = balance + value
    /\ UNCHANGED <<callVars, now, chainid, nextGameId, requestToGame, oracle, paid>>

\* a variant of claimCreatorError without the creatorClaimed require
claimCreatorErrorNoClaimedCheck(gameId, sender) ==
    IF entered THEN ReentrantCall
    ELSE IF ~gameExists(gameId) THEN GameNotFound
    ELSE IF ~games[gameId].settled THEN NotSettled
    ELSE IF ~(sender = games[gameId].creator) THEN Unauthorized
    ELSE IF sender \in rejecting THEN TransferFailed
    ELSE OK

\* a variant of claimCreatorError without the settled require
claimCreatorErrorNoSettledCheck(gameId, sender) ==
    IF entered THEN ReentrantCall
    ELSE IF ~gameExists(gameId) THEN GameNotFound
    ELSE IF ~(sender = games[gameId].creator) THEN Unauthorized
    ELSE IF games[gameId].creatorClaimed THEN AlreadyClaimed
    ELSE IF sender \in rejecting THEN TransferFailed
    ELSE OK

\* a variant of claimCreatorError that takes every transfer to succeed
claimCreatorErrorIgnoresTransfer(gameId, sender) ==
    IF entered THEN ReentrantCall
    ELSE IF ~gameExists(gameId) THEN GameNotFound
    ELSE IF ~games[gameId].settled THEN NotSettled
    ELSE IF ~(sender = games[gameId].creator) THEN Unauthorized
    ELSE IF games[gameId].creatorClaimed THEN AlreadyClaimed
    ELSE OK

claimCreatorError(gameId, sender) ==
    IF entered THEN ReentrantCall
    ELSE IF ~gameExists(gameId) THEN GameNotFound
    ELSE IF ~games[gameId].settled THEN NotSettled
    ELSE IF ~(sender = games[gameId].creator) THEN Unauthorized
    ELSE IF games[gameId].creatorClaimed THEN AlreadyClaimed
    ELSE IF sender \in rejecting THEN TransferFailed
    ELSE OK

claimCreator(gameId, sender) ==
    /\ claimCreatorError(gameId, sender) = OK
    /\ games' = [games EXCEPT ![gameId].creatorClaimed = TRUE]
    /\ safeTransfer(gameId, sender,
           games[gameId].creatorShare + games[gameId].creatorBonusRemainder)
    /\ UNCHANGED <<callVars, now, chainid, nextGameId, requestToGame, oracle>>

\* a variant of claimWinningsError without the settled require
claimWinningsErrorNoSettledCheck(gameId, sender) ==
    IF entered THEN ReentrantCall
    ELSE IF ~gameExists(gameId) THEN GameNotFound
    ELSE IF ~games[gameId].participants[sender].exists THEN NotAChallenger
    ELSE IF ~games[gameId].participants[sender].won THEN NotEligible
    ELSE IF games[gameId].participants[sender].claimed THEN AlreadyClaimed
    ELSE IF ~(games[gameId].payoutPerWinner > 0) THEN NothingToClaim
    ELSE IF sender \in rejecting THEN TransferFailed
    ELSE OK

claimWinningsError(gameId, sender) ==
    IF entered THEN ReentrantCall
    ELSE IF ~gameExists(gameId) THEN GameNotFound
    ELSE IF ~games[gameId].settled THEN NotSettled
    ELSE IF ~games[gameId].participants[sender].exists THEN NotAChallenger
    ELSE IF ~games[gameId].participants[sender].won THEN NotEligible
    ELSE IF games[gameId].participants[sender].claimed THEN AlreadyClaimed
    ELSE IF ~(games[gameId].payoutPerWinner > 0) THEN NothingToClaim
    ELSE IF sender \in rejecting THEN TransferFailed
    ELSE OK

claimWinnings(gameId, sender) ==
    /\ claimWinningsError(gameId, sender) = OK
    /\ games' = [games EXCEPT ![gameId].participants[sender].claimed = TRUE]
    /\ safeTransfer(gameId, sender, games[gameId].payoutPerWinner)
    /\ UNCHANGED <<callVars, now, chainid, nextGameId, requestToGame, oracle>>

\* ----------------------------------------------------------- settlement
\* a variant of completeSettlementError that takes any number of guesses
completeSettlementErrorAnyLength(g, guesses) == OK

\* the require inside _completeSettlement
completeSettlementError(g, guesses) ==
    IF Len(g.participantList) = 0 THEN OK
    ELSE IF ~(Len(guesses) = Len(g.participantList)) THEN MismatchGuessCount
    ELSE OK

\* the position of a participant in participantList
indexOf(list, a) == CHOOSE i \in 1..Len(list) : list[i] = a

\* a variant of revealChoices that reads the guesses from the far end
revealChoicesBackwards(g, guesses) ==
    [a \in Addr |->
        IF \E i \in 1..Len(g.participantList) : g.participantList[i] = a
        THEN [g.participants[a] EXCEPT
                 !.choiceRevealed = TRUE,
                 !.guessedBig = guesses[Len(guesses) + 1 - indexOf(g.participantList, a)]]
        ELSE g.participants[a]]

\* the loop of _completeSettlement over participantList
revealChoices(g, guesses) ==
    [a \in Addr |->
        IF \E i \in 1..Len(g.participantList) : g.participantList[i] = a
        THEN [g.participants[a] EXCEPT
                 !.choiceRevealed = TRUE,
                 !.guessedBig = guesses[indexOf(g.participantList, a)]]
        ELSE g.participants[a]]

\* a variant of completeSettlement that halves the pot of a game without
\* participants
completeSettlementEmptyHalved(g, revealedNumber, guesses) ==
    LET isBig == revealedNumber > BIG_THRESHOLD
        head == [g EXCEPT !.revealPending = FALSE,
                          !.settled = TRUE,
                          !.revealedNumber = revealedNumber,
                          !.numberIsBig = isBig]
    IN  IF Len(g.participantList) = 0
        THEN [head EXCEPT !.winnersCount = 0,
                          !.creatorShare = g.totalPot \div 2,
                          !.payoutPerWinner = 0,
                          !.creatorBonusRemainder = 0]
        ELSE [head EXCEPT !.participants = revealChoices(g, guesses),
                          !.winnersCount = 0,
                          !.creatorShare = g.totalPot,
                          !.payoutPerWinner = 0,
                          !.creatorBonusRemainder = 0]

\* a variant of completeSettlement that keeps half the pot for winners even
\* when it counts none
completeSettlementHalved(g, revealedNumber, guesses) ==
    LET isBig == revealedNumber > BIG_THRESHOLD
        head == [g EXCEPT !.revealPending = FALSE,
                          !.settled = TRUE,
                          !.revealedNumber = revealedNumber,
                          !.numberIsBig = isBig]
    IN  IF Len(g.participantList) = 0
        THEN [head EXCEPT !.winnersCount = 0,
                          !.creatorShare = g.totalPot,
                          !.payoutPerWinner = 0,
                          !.creatorBonusRemainder = 0]
        ELSE [head EXCEPT !.participants = revealChoices(g, guesses),
                          !.winnersCount = 0,
                          !.creatorShare = g.totalPot \div 2,
                          !.payoutPerWinner = 0,
                          !.creatorBonusRemainder = 0]

\* a variant of completeSettlement that leaves the stakes of a game without
\* winners out of the creator's share
completeSettlementStakesLost(g, revealedNumber, guesses) ==
    LET isBig == revealedNumber > BIG_THRESHOLD
        head == [g EXCEPT !.revealPending = FALSE,
                          !.settled = TRUE,
                          !.revealedNumber = revealedNumber,
                          !.numberIsBig = isBig]
    IN  IF Len(g.participantList) = 0
        THEN [head EXCEPT !.winnersCount = 0,
                          !.creatorShare = g.totalPot,
                          !.payoutPerWinner = 0,
                          !.creatorBonusRemainder = 0]
        ELSE [head EXCEPT !.participants = revealChoices(g, guesses),
                          !.winnersCount = 0,
                          !.creatorShare = g.rewardPool,
                          !.payoutPerWinner = 0,
                          !.creatorBonusRemainder = 0]

\* a variant of completeSettlement that leaves revealPending as it was
completeSettlementKeepsPending(g, revealedNumber, guesses) ==
    LET isBig == revealedNumber > BIG_THRESHOLD
        head == [g EXCEPT !.settled = TRUE,
                          !.revealedNumber = revealedNumber,
                          !.numberIsBig = isBig]
    IN  IF Len(g.participantList) = 0
        THEN [head EXCEPT !.winnersCount = 0,
                          !.creatorShare = g.totalPot,
                          !.payoutPerWinner = 0,
                          !.creatorBonusRemainder = 0]
        ELSE [head EXCEPT !.participants = revealChoices(g, guesses),
                          !.winnersCount = 0,
                          !.creatorShare = g.totalPot,
                          !.payoutPerWinner = 0,
                          !.creatorBonusRemainder = 0]

\* a variant of completeSettlement that gives the creator the pot and the
\* reward pool on top of it
completeSettlementRewardOnTop(g, revealedNumber, guesses) ==
    LET isBig == revealedNumber > BIG_THRESHOLD
        head == [g EXCEPT !.revealPending = FALSE,
                          !.settled = TRUE,
                          !.revealedNumber = revealedNumber,
                          !.numberIsBig = isBig]
    IN  IF Len(g.participantList) = 0
        THEN [head EXCEPT !.winnersCount = 0,
                          !.creatorShare = g.totalPot + g.rewardPool,
                          !.payoutPerWinner = 0,
                          !.creatorBonusRemainder = 0]
        ELSE [head EXCEPT !.participants = revealChoices(g, guesses),
                          !.winnersCount = 0,
                          !.creatorShare = g.totalPot + g.rewardPool,
                          !.payoutPerWinner = 0,
                          !.creatorBonusRemainder = 0]

\* a variant of completeSettlement that counts the threshold itself as big
completeSettlementBigFromThreshold(g, revealedNumber, guesses) ==
    LET isBig == revealedNumber >= BIG_THRESHOLD
        head == [g EXCEPT !.revealPending = FALSE,
                          !.settled = TRUE,
                          !.revealedNumber = revealedNumber,
                          !.numberIsBig = isBig]
    IN  IF Len(g.participantList) = 0
        THEN [head EXCEPT !.winnersCount = 0,
                          !.creatorShare = g.totalPot,
                          !.payoutPerWinner = 0,
                          !.creatorBonusRemainder = 0]
        ELSE [head EXCEPT !.participants = revealChoices(g, guesses),
                          !.winnersCount = 0,
                          !.creatorShare = g.totalPot,
                          !.payoutPerWinner = 0,
                          !.creatorBonusRemainder = 0]

\* _completeSettlement: the Game record it leaves
completeSettlement(g, revealedNumber, guesses) ==
    LET isBig == revealedNumber > BIG_THRESHOLD
        head == [g EXCEPT !.revealPending = FALSE,
                          !.settled = TRUE,
                          !.revealedNumber = revealedNumber,
                          !.numberIsBig = isBig]
    IN  IF Len(g.participantList) = 0
        THEN [head EXCEPT !.winnersCount = 0,
                          !.creatorShare = g.totalPot,
                          !.payoutPerWinner = 0,
                          !.creatorBonusRemainder = 0]
        ELSE [head EXCEPT !.participants = revealChoices(g, guesses),
                          !.winnersCount = 0,
                          !.creatorShare = g.totalPot,
                          !.payoutPerWinner = 0,
                          !.creatorBonusRemainder = 0]

\* the handles a reveal request hands to the oracle, as the oracle decrypts
\* them: the secret first, then each choice in participantList order
requestedCleartexts(g) ==
    [secret |-> g.secretNumber,
     guesses |-> [i \in 1..Len(g.participantList) |->
                     g.participants[g.participantList[i]].choice]]

\* FHE.requestDecryption and the bookkeeping that follows it
submitRequest(gameId) ==
    LET requestId == Len(oracle)
    IN  /\ oracle' = Append(oracle, requestedCleartexts(games[gameId]))
        /\ games' = [games EXCEPT ![gameId].revealPending = TRUE,
                                  ![gameId].requestId = requestId]
        /\ requestToGame' = [requestToGame EXCEPT ![requestId] = gameId]

\* a variant of requestRevealError without the settled require
requestRevealErrorNoSettledCheck(gameId) ==
    IF ~gameExists(gameId) THEN GameNotFound
    ELSE IF ~(now >= games[gameId].endTime) THEN RoundStillActive
    ELSE IF games[gameId].revealPending THEN RevealAlreadyPending
    ELSE OK

\* a variant of requestRevealError without the end-time require
requestRevealErrorAnyTime(gameId) ==
    IF ~gameExists(gameId) THEN GameNotFound
    ELSE IF games[gameId].settled THEN AlreadySettled
    ELSE IF games[gameId].revealPending THEN RevealAlreadyPending
    ELSE OK

requestRevealError(gameId) ==
    IF ~gameExists(gameId) THEN GameNotFound
    ELSE IF ~(now >= games[gameId].endTime) THEN RoundStillActive
    ELSE IF games[gameId].settled THEN AlreadySettled
    ELSE IF games[gameId].revealPending THEN RevealAlreadyPending
    ELSE OK

requestReveal(gameId) ==
    /\ requestRevealError(gameId) = OK
    /\ submitRequest(gameId)
    /\ UNCHANGED <<callVars, now, chainid, nextGameId, balance, paid>>

\* a variant of autoSettleError without the settled require
autoSettleErrorNoSettledCheck(gameId) ==
    IF ~gameExists(gameId) THEN GameNotFound
    ELSE IF ~(now >= games[gameId].endTime) THEN RoundStillActive
    ELSE OK

autoSettleError(gameId) ==
    IF ~gameExists(gameId) THEN GameNotFound
    ELSE IF games[gameId].settled THEN AlreadySettled
    ELSE IF ~(now >= games[gameId].endTime) THEN RoundStillActive
    ELSE OK

\* a variant of autoSettle that submits a request whether or not one is
\* pending
autoSettleResubmits(gameId) ==
    /\ autoSettleError(gameId) = OK
    /\ submitRequest(gameId)
    /\ UNCHANGED <<callVars, now, chainid, nextGameId, balance, paid>>

\* a variant of autoSettle that settles the game itself on the local chains
autoSettleSettlesLocally(gameId) ==
    /\ autoSettleError(gameId) = OK
    /\ IF isLocalChain
       THEN /\ games' = [games EXCEPT ![gameId] =
                   completeSettlement(@, @.secretNumber, requestedCleartexts(@).guesses)]
            /\ UNCHANGED <<requestToGame, oracle>>
       ELSE IF ~games[gameId].revealPending
       THEN submitRequest(gameId)
       ELSE UNCHANGED <<games, requestToGame, oracle>>
    /\ UNCHANGED <<callVars, now, chainid, nextGameId, balance, paid>>

autoSettle(gameId) ==
    /\ autoSettleError(gameId) = OK
    /\ IF ~games[gameId].revealPending
       THEN submitRequest(gameId)
       ELSE UNCHANGED <<games, requestToGame, oracle>>
    /\ UNCHANGED <<callVars, now, chainid, nextGameId, balance, paid>>

\* a variant of callbackGame that looks every request up to the first game
callbackGameFirst(requestId) == 0

\* the game a request identifier is looked up to (0 when never recorded)
callbackGame(requestId) ==
    IF requestId \in DOMAIN requestToGame THEN requestToGame[requestId] ELSE 0

\* a variant of checkSignatures that accepts the cleartexts of any request
checkSignaturesAnyRequest(requestId, cleartexts, proofValid) ==
    /\ proofValid
    /\ \E r \in DOMAIN oracle : cleartexts = oracle[r]

\* FHE.checkSignatures: the proof authenticates the cleartexts the oracle
\* produced for a request it accepted
checkSignatures(requestId, cleartexts, proofValid) ==
    /\ proofValid
    /\ requestId + 1 \in DOMAIN oracle
    /\ cleartexts = oracle[requestId + 1]

\* the transfer of _autoDistributeRewards failing, for a game about to be
\* settled: its creator is owed the pot and has not claimed
autoDistributeRewardsError(g) ==
    IF g.autoSettleEnabled /\ g.totalPot > 0 /\ ~g.creatorClaimed
           /\ g.creator \in rejecting
    THEN TransferFailed
    ELSE OK

\* a variant of revealCallbackError without the signature check
revealCallbackErrorNoProofCheck(requestId, cleartexts, proofValid) ==
    LET g == games[callbackGame(requestId)]
    IN  IF ~g.revealPending THEN NoPendingReveal
        ELSE IF completeSettlementError(g, cleartexts.guesses) # OK
            THEN completeSettlementError(g, cleartexts.guesses)
        ELSE autoDistributeRewardsError(g)

revealCallbackError(requestId, cleartexts, proofValid) ==
    LET g == games[callbackGame(requestId)]
    IN  IF ~g.revealPending THEN NoPendingReveal
        ELSE IF ~checkSignatures(requestId, cleartexts, proofValid)
            THEN InvalidProof
        ELSE IF completeSettlementError(g, cleartexts.guesses) # OK
            THEN completeSettlementError(g, cleartexts.guesses)
        ELSE autoDistributeRewardsError(g)

\* a variant of autoDistributeRewards that pays without setting creatorClaimed
autoDistributeRewardsKeepsFlag(g, gameId) ==
    LET creatorPayout == g.creatorShare + g.creatorBonusRemainder
    IN  IF creatorPayout > 0 /\ ~g.creatorClaimed
        THEN /\ games' = [games EXCEPT ![gameId] = g]
             /\ safeTransfer(gameId, g.creator, creatorPayout)
        ELSE /\ games' = [games EXCEPT ![gameId] = g]
             /\ UNCHANGED <<balance, paid>>

\* _autoDistributeRewards
autoDistributeRewards(g, gameId) ==
    LET creatorPayout == g.creatorShare + g.creatorBonusRemainder
    IN  IF creatorPayout > 0 /\ ~g.creatorClaimed
        THEN /\ games' = [games EXCEPT ![gameId] =
                    [g EXCEPT !.creatorClaimed = TRUE]]
             /\ safeTransfer(gameId, g.creator, creatorPayout)
        ELSE /\ games' = [games EXCEPT ![gameId] = g]
             /\ UNCHANGED <<balance, paid>>

revealCallback(requestId, cleartexts, proofValid) ==
    LET gameId == callbackGame(requestId)
        g == games[gameId]
        settledGame ==
            IF Len(g.participantList) = 0
            THEN completeSettlement(g, cleartexts.secret, <<>>)
            ELSE completeSettlement(g, cleartexts.secret, cleartexts.guesses)
    IN  /\ revealCallbackError(requestId, cleartexts, proofValid) = OK
        /\ IF g.autoSettleEnabled
           THEN autoDistributeRewards(settledGame, gameId)
           ELSE /\ games' = [games EXCEPT ![gameId] = settledGame]
                /\ UNCHANGED <<balance, paid>>
        /\ UNCHANGED <<callVars, now, chainid, nextGameId, requestToGame, oracle>>

\* a variant of debugRevealError without the settled require
debugRevealErrorNoSettledCheck(gameId, guesses) ==
    IF ~gameExists(gameId) THEN GameNotFound
    ELSE IF ~isLocalChain THEN DebugDisabled
    ELSE IF ~(now >= games[gameId].endTime) THEN RoundActive
    ELSE IF ~(Len(games[gameId].participantList) = Len(guesses))
        THEN MismatchGuessCount
    ELSE completeSettlementError(games[gameId], guesses)

\* a variant of debugRevealError without the chain require
debugRevealErrorAnyChain(gameId, guesses) ==
    IF ~gameExists(gameId) THEN GameNotFound
    ELSE IF games[gameId].settled THEN AlreadySettled
    ELSE IF ~(now >= games[gameId].endTime) THEN RoundActive
    ELSE IF ~(Len(games[gameId].participantList) = Len(guesses))
        THEN MismatchGuessCount
    ELSE completeSettlementError(games[gameId], guesses)

debugRevealError(gameId, guesses) ==
    IF ~gameExists(gameId) THEN GameNotFound
    ELSE IF ~isLocalChain THEN DebugDisabled
    ELSE IF games[gameId].settled THEN AlreadySettled
    ELSE IF ~(now >= games[gameId].endTime) THEN RoundActive
    ELSE IF ~(Len(games[gameId].participantList) = Len(guesses))
        THEN MismatchGuessCount
    ELSE completeSettlementError(games[gameId], guesses)

debugReveal(gameId, revealedNumber, guesses) ==
    /\ debugRevealError(gameId, guesses) = OK
    /\ games' = [games EXCEPT ![gameId] =
           completeSettlement(@, revealedNumber, guesses)]
    /\ UNCHANGED <<callVars, now, chainid, nextGameId, requestToGame, oracle, balance, paid>>

\* the guesses fairReveal passes on: every participant is taken to guess big
assumedGuesses(g) == [i \in 1..Len(g.participantList) |-> TRUE]

\* a variant of fairRevealError without the commitment require
fairRevealErrorNoHashCheck(gameId, sender, originalSecretNumber, salt) ==
    IF ~gameExists(gameId) THEN GameNotFound
    ELSE IF games[gameId].settled THEN AlreadySettled
    ELSE IF ~(now >= games[gameId].endTime) THEN RoundActive
    ELSE IF ~(sender = games[gameId].creator) THEN UnauthorizedReveal
    ELSE completeSettlementError(games[gameId], assumedGuesses(games[gameId]))

\* a variant of fairRevealError without the creator require
fairRevealErrorNoCreatorCheck(gameId, sender, originalSecretNumber, salt) ==
    IF ~gameExists(gameId) THEN GameNotFound
    ELSE IF games[gameId].settled THEN AlreadySettled
    ELSE IF ~(now >= games[gameId].endTime) THEN RoundActive
    ELSE IF ~(keccak256Packed(originalSecretNumber, salt)
                  = games[gameId].secretNumberHash) THEN HashMismatch
    ELSE completeSettlementError(games[gameId], assumedGuesses(games[gameId]))

fairRevealError(gameId, sender, originalSecretNumber, salt) ==
    IF ~gameExists(gameId) THEN GameNotFound
    ELSE IF games[gameId].settled THEN AlreadySettled
    ELSE IF ~(now >= games[gameId].endTime) THEN RoundActive
    ELSE IF ~(sender = games[gameId].creator) THEN UnauthorizedReveal
    ELSE IF ~(keccak256Packed(originalSecretNumber, salt)
                  = games[gameId].secretNumberHash) THEN HashMismatch
    ELSE completeSettlementError(games[gameId], assumedGuesses(games[gameId]))

fairReveal(gameId, sender, originalSecretNumber, salt) ==
    /\ fairRevealError(gameId, sender, originalSecretNumber, salt) = OK
    /\ games' = [games EXCEPT ![gameId] =
           completeSettlement(@, originalSecretNumber, assumedGuesses(@))]
    /\ UNCHANGED <<callVars, now, chainid, nextGameId, requestToGame, oracle, balance, paid>>

\* _safeTransfer up to its external call: the value leaves and the code of
\* the recipient starts to run; guarded tells whether the entry point that
\* pays holds the reentrancy guard
transferCall(gameId, to, amount, guarded) ==
    /\ amount <= balance
    /\ to \notin rejecting
    /\ balance' = balance - amount
    /\ paid' = [paid EXCEPT ![gameId][to] = @ + amount]
    /\ inFlight' = Append(inFlight,
           [gameId |-> gameId, to |-> to, amount |-> amount, guarded |-> guarded])

\* the code of the recipient returns success: _safeTransfer and the entry
\* point that called it end, and nonReentrant releases the guard it took
transferReturn ==
    /\ inFlight # <<>>
    /\ inFlight' = SubSeq(inFlight, 1, Len(inFlight) - 1)
    /\ entered' = IF inFlight[Len(inFlight)].guarded THEN FALSE ELSE entered
    /\ UNCHANGED <<now, chainid, nextGameId, games, requestToGame, oracle, balance, paid, rejecting>>

\* claimCreator up to the external call of its transfer
claimCreatorCall(gameId, sender) ==
    /\ claimCreatorError(gameId, sender) = OK
    /\ entered' = TRUE
    /\ games' = [games EXCEPT ![gameId].creatorClaimed = TRUE]
    /\ transferCall(gameId, sender,
           games[gameId].creatorShare + games[gameId].creatorBonusRemainder, TRUE)
    /\ UNCHANGED <<now, chainid, nextGameId, requestToGame, oracle, rejecting>>

\* claimWinnings up to the external call of its transfer
claimWinningsCall(gameId, sender) ==
    /\ claimWinningsError(gameId, sender) = OK
    /\ entered' = TRUE
    /\ games' = [games EXCEPT ![gameId].participants[sender].claimed = TRUE]
    /\ transferCall(gameId, sender, games[gameId].payoutPerWinner, TRUE)
    /\ UNCHANGED <<now, chainid, nextGameId, requestToGame, oracle, rejecting>>

\* a variant of autoDistributeRewardsCall that pays before it has set
\* creatorClaimed
autoDistributeRewardsCallFlagAfter(g, gameId) ==
    LET creatorPayout == g.creatorShare + g.creatorBonusRemainder
    IN  IF creatorPayout > 0 /\ ~g.creatorClaimed
        THEN /\ games' = [games EXCEPT ![gameId] = g]
             /\ transferCall(gameId, g.creator, creatorPayout, FALSE)
        ELSE /\ games' = [games EXCEPT ![gameId] = g]
             /\ UNCHANGED <<balance, paid, inFlight>>

\* _autoDistributeRewards up to the external call of its transfer;
\* revealCallback is not nonReentrant, so the guard is not held
autoDistributeRewardsCall(g, gameId) ==
    LET creatorPayout == g.creatorShare + g.creatorBonusRemainder
    IN  IF creatorPayout > 0 /\ ~g.creatorClaimed
        THEN /\ games' = [games EXCEPT ![gameId] =
                    [g EXCEPT !.creatorClaimed = TRUE]]
             /\ transferCall(gameId, g.creator, creatorPayout, FALSE)
        ELSE /\ games' = [games EXCEPT ![gameId] = g]
             /\ UNCHANGED <<balance, paid, inFlight>>

\* revealCallback up to the external call of its transfer, if it makes one
revealCallbackCall(requestId, cleartexts, proofValid) ==
    LET gameId == callbackGame(requestId)
        g == games[gameId]
        settledGame ==
            IF Len(g.participantList) = 0
            THEN completeSettlement(g, cleartexts.secret, <<>>)
            ELSE completeSettlement(g, cleartexts.secret, cleartexts.guesses)
    IN  /\ revealCallbackError(requestId, cleartexts, proofValid) = OK
        /\ IF g.autoSettleEnabled
           THEN autoDistributeRewardsCall(settledGame, gameId)
           ELSE /\ games' = [games EXCEPT ![gameId] = settledGame]
                /\ UNCHANGED <<balance, paid, inFlight>>
        /\ UNCHANGED <<now, chainid, nextGameId, requestToGame, oracle, rejecting, entered>>

\* an identity changes whether its code accepts incoming value
setRejecting(a) ==
    /\ inFlight = <<>>
    /\ rejecting' = IF a \in rejecting THEN rejecting \ {a} ELSE rejecting \cup {a}
    /\ UNCHANGED <<now, chainid, nextGameId, games, requestToGame, oracle, balance, paid, entered, inFlight>>

\* the block time moves on between transactions
Tick ==
    /\ inFlight = <<>>
    /\ \E t \in Times : t > now /\ now' = t
    /\ UNCHANGED <<callVars, chainid, nextGameId, games, requestToGame, oracle, balance, paid>>

\* ------------------------------------------------------- the environment
\* Spec follows the first game of the ledger under every input of the input
\* sets; SpecTwo follows MaxGames games, which share the clock, the oracle
\* and the balance, under the inputs of the Narrow... sets.
CreateGame ==
    \E sender \in Creators, secret \in Numbers, n \in Numbers, s \in CommitSalts,
       minStake \in MinStakes, endTime \in EndTimes, rewardPool \in RewardPools,
       auto \in BOOLEAN, value \in RewardPools :
        /\ nextGameId = 0
        /\ createGame(sender, secret, keccak256Packed(n, s), minStake, endTime,
                      rewardPool, auto, value)

JoinGame ==
    \E gameId \in GameIds, sender \in Addr, guess \in BOOLEAN, value \in Stakes :
        joinGame(gameId, sender, guess, value)

RequestReveal == \E gameId \in GameIds : requestReveal(gameId)

AutoSettle == \E gameId \in GameIds : autoSettle(gameId)

\* cleartexts with the secret moved to the other side of the threshold
otherSecret(cleartexts) ==
    [cleartexts EXCEPT !.secret =
        IF @ > BIG_THRESHOLD THEN BIG_THRESHOLD ELSE BIG_THRESHOLD + 1]

\* cleartexts with every guess turned over
otherGuesses(cleartexts) ==
    [cleartexts EXCEPT !.guesses = [i \in DOMAIN @ |-> ~@[i]]]

\* the cleartexts a caller of revealCallback can hand in: what the oracle
\* produced for any request, as it is or altered, or a secret made up
Cleartexts ==
    {oracle[i] : i \in DOMAIN oracle}
        \cup {otherSecret(oracle[i]) : i \in DOMAIN oracle}
        \cup {otherGuesses(oracle[i]) : i \in DOMAIN oracle}
        \cup {[secret |-> n, guesses |-> <<>>] : n \in Numbers}

\* revealCallback is external: anyone calls it, with any request id, any
\* cleartexts and a proof that is genuine or not (its first require is
\* tested before the other inputs are drawn)
RevealCallback ==
    \E requestId \in CallbackIds :
        /\ games[callbackGame(requestId)].revealPending
        /\ \E cleartexts \in Cleartexts, proofValid \in BOOLEAN :
               revealCallback(requestId, cleartexts, proofValid)

DebugReveal ==
    \E gameId \in GameIds, revealedNumber \in Numbers, guesses \in GuessSeqs :
        debugReveal(gameId, revealedNumber, guesses)

FairReveal ==
    \E gameId \in GameIds, sender \in Addr, n \in Numbers, salt \in Salts :
        fairReveal(gameId, sender, n, salt)

\* a claim transaction on a game, through either claim entry point
\* (claimWinnings is enabled in no reachable state: _completeSettlement
\* never writes won, see C6)
Claim ==
    \E gameId \in GameIds, sender \in Addr :
        /\ gameExists(gameId)
        /\ (claimCreator(gameId, sender) \/ claimWinnings(gameId, sender))

Next ==
    \/ CreateGame
    \/ JoinGame
    \/ RequestReveal
    \/ AutoSettle
    \/ RevealCallback
    \/ DebugReveal
    \/ FairReveal
    \/ Claim
    \/ Tick

Spec == Init /\ [][Next]_vars

NarrowNumbers == {6}
NarrowStakes == {MIN_STAKE}
NarrowCreators == {1}
NarrowChallengers == {2}

CreateGameTwo ==
    \E sender \in NarrowCreators, auto \in BOOLEAN :
        /\ nextGameId < MaxGames
        /\ createGame(sender, 6, keccak256Packed(6, 0), MIN_STAKE,
                      MIN_DURATION + 1, MIN_CREATOR_REWARD, auto,
                      MIN_CREATOR_REWARD)

JoinGameTwo ==
    \E gameId \in GameIds, sender \in NarrowChallengers, value \in NarrowStakes :
        joinGame(gameId, sender, TRUE, value)

DebugRevealTwo ==
    \E gameId \in GameIds, revealedNumber \in NarrowNumbers, guesses \in GuessSeqs :
        debugReveal(gameId, revealedNumber, guesses)

FairRevealTwo ==
    \E gameId \in GameIds, sender \in Addr, n \in NarrowNumbers, salt \in Salts :
        fairReveal(gameId, sender, n, salt)

NextTwo ==
    \/ CreateGameTwo
    \/ JoinGameTwo
    \/ RequestReveal
    \/ AutoSettle
    \/ RevealCallback
    \/ DebugRevealTwo
    \/ FairRevealTwo
    \/ Claim
    \/ Tick

SpecTwo == Init /\ [][NextTwo]_vars

\* SpecContracts follows MaxGames games whose creator is a contract: it can
\* refuse the value it is sent, and while it is being paid its code can call
\* any entry point before it returns.
RevealCallbackCall ==
    \E requestId \in CallbackIds :
        /\ games[callbackGame(requestId)].revealPending
        /\ \E cleartexts \in Cleartexts, proofValid \in BOOLEAN :
               revealCallbackCall(requestId, cleartexts, proofValid)

ClaimCall ==
    \E gameId \in GameIds, sender \in Addr :
        /\ gameExists(gameId)
        /\ (claimCreatorCall(gameId, sender) \/ claimWinningsCall(gameId, sender))

TransferReturn == transferReturn

SetRejecting == \E a \in NarrowCreators : setRejecting(a)

NextContracts ==
    \/ CreateGameTwo
    \/ RequestReveal
    \/ AutoSettle
    \/ RevealCallbackCall
    \/ FairRevealTwo
    \/ ClaimCall
    \/ TransferReturn
    \/ SetRejecting
    \/ Tick

SpecContracts == Init /\ [][NextContracts]_vars

\* SpecOracle is SpecContracts with an oracle that delivers and tries again:
\* a callback that can go through again and again does go through.
SpecOracle == SpecContracts /\ SF_vars(RevealCallbackCall)

\* SpecNumbers follows the first game under secret numbers, commitments and
\* revealed numbers drawn from the whole of uint8, of which Uint8Samples
\* holds both ends, a number of the game and the first number above its range
Uint8Samples == {0, 6, 11, 255}

CreateGameWide ==
    \E sender \in NarrowCreators, secret \in Uint8Samples, n \in Uint8Samples, auto \in BOOLEAN :
        /\ nextGameId = 0
        /\ createGame(sender, secret, keccak256Packed(n, 0), MIN_STAKE,
                      MIN_DURATION + 1, MIN_CREATOR_REWARD, auto,
                      MIN_CREATOR_REWARD)

DebugRevealWide ==
    \E gameId \in GameIds, revealedNumber \in Uint8Samples, guesses \in GuessSeqs :
        debugReveal(gameId, revealedNumber, guesses)

FairRevealWide ==
    \E gameId \in GameIds, sender \in Addr, n \in Uint8Samples, salt \in Salts :
        fairReveal(gameId, sender, n, salt)

NextNumbers ==
    \/ CreateGameWide
    \/ JoinGameTwo
    \/ RequestReveal
    \/ AutoSettle
    \/ RevealCallback
    \/ DebugRevealWide
    \/ FairRevealWide
    \/ Tick

SpecNumbers == Init /\ [][NextNumbers]_vars

\* ------------------------------------------------------------ properties
\* the challengers of a game
challengers(g) == {g.participantList[i] : i \in 1..Len(g.participantList)}

\* the challengers whose revealed guess matches the outcome
matching(g) ==
    {a \in challengers(g) :
        g.participants[a].guessedBig = (g.revealedNumber > BIG_THRESHOLD)}

\* what settlement with number n and guesses leaves, as the claim C1 has it
settledAs(g, n, guesses) ==
    /\ \A i \in 1..Len(g.participantList) :
          LET p == g.participants[g.participantList[i]]
          IN  /\ p.choiceRevealed
              /\ p.guessedBig = guesses[i]
              /\ p.won = (guesses[i] = (n > BIG_THRESHOLD))
    /\ g.winnersCount = Cardinality({a \in challengers(g) : g.participants[a].won})

\* C1: a settlement through debugReveal, fairReveal or revealCallback with
\* number n and guesses g leaves every participant i with choiceRevealed,
\* guessedBig = g[i] and won = (g[i] = (n > 5)), and winnersCount the number
\* of participants that won.
C1_SettlementMarksWinners ==
    [][/\ \A gameId \in GameIds, n \in Numbers, guesses \in GuessSeqs :
             debugReveal(gameId, n, guesses)
                 => settledAs(games'[gameId], n, guesses)
       /\ \A gameId \in GameIds, sender \in Addr, n \in Numbers, salt \in Salts :
             fairReveal(gameId, sender, n, salt)
                 => settledAs(games'[gameId], n, assumedGuesses(games[gameId]))
       /\ \A requestId \in RequestIds :
             (/\ requestId + 1 \in DOMAIN oracle
              /\ revealCallback(requestId, oracle[requestId + 1], TRUE))
                 => settledAs(games'[callbackGame(requestId)],
                              oracle[requestId + 1].secret,
                              oracle[requestId + 1].guesses)]_vars

\* C2: a settled game with pot P in which k > 0 participants' guesses match
\* the outcome stores creatorShare = P div 2, payoutPerWinner =
\* (P - P div 2) div k and creatorBonusRemainder = (P - P div 2) - k *
\* payoutPerWinner.
C2_PotSplit ==
    \A gameId \in GameIds :
        LET g == games[gameId]
            P == g.totalPot
            k == Cardinality(matching(g))
        IN  (g.settled /\ k > 0) =>
                /\ g.creatorShare = P \div 2
                /\ g.payoutPerWinner = (P - P \div 2) \div k
                /\ g.creatorBonusRemainder =
                       (P - P \div 2) - k * ((P - P \div 2) \div k)

\* C3: every settled game has creatorShare + creatorBonusRemainder +
\* winnersCount * payoutPerWinner = totalPot.
C3_SplitSumsToPot ==
    \A gameId \in GameIds :
        LET g == games[gameId]
        IN  g.settled =>
                g.creatorShare + g.creatorBonusRemainder
                    + g.winnersCount * g.payoutPerWinner = g.totalPot

C3_Witness ==
    \E gameId \in GameIds :
        /\ games[gameId].settled
        /\ Len(games[gameId].participantList) = 2
        /\ games[gameId].totalPot > 0

\* C4: a settled game without participants has winnersCount = 0,
\* creatorShare = totalPot, payoutPerWinner = 0 and creatorBonusRemainder = 0,
\* its creator can claim while creatorClaimed is false, and what the creator
\* was sent once creatorClaimed is true is exactly totalPot.
C4_EmptyGameGoesToCreator ==
    \A gameId \in GameIds :
        LET g == games[gameId]
        IN  (g.settled /\ Len(g.participantList) = 0) =>
                /\ g.winnersCount = 0
                /\ g.creatorShare = g.totalPot
                /\ g.payoutPerWinner = 0
                /\ g.creatorBonusRemainder = 0
                /\ ~g.creatorClaimed =>
                       /\ paid[gameId][g.creator] = 0
                       /\ ENABLED claimCreator(gameId, g.creator)
                /\ g.creatorClaimed => paid[gameId][g.creator] = g.totalPot

C4_Witness ==
    \E gameId \in GameIds :
        /\ games[gameId].settled
        /\ Len(games[gameId].participantList) = 0
        /\ ~games[gameId].autoSettleEnabled
        /\ games[gameId].creatorClaimed
        /\ paid[gameId][games[gameId].creator] = games[gameId].totalPot
        /\ games[gameId].totalPot > 0

\* C5: a settled game with at least one participant, none of whose guesses
\* matches the outcome, has winnersCount = 0, payoutPerWinner = 0 and
\* creatorShare = totalPot, and its creator is paid the whole pot.
C5_NoWinnerGoesToCreator ==
    \A gameId \in GameIds :
        LET g == games[gameId]
        IN  (g.settled /\ Len(g.participantList) > 0 /\ matching(g) = {}) =>
                /\ g.winnersCount = 0
                /\ g.payoutPerWinner = 0
                /\ g.creatorShare = g.totalPot
                /\ ~g.creatorClaimed =>
                       /\ paid[gameId][g.creator] = 0
                       /\ ENABLED claimCreator(gameId, g.creator)
                /\ g.creatorClaimed => paid[gameId][g.creator] = g.totalPot

C5_Witness ==
    \E gameId \in GameIds :
        /\ games[gameId].settled
        /\ Len(games[gameId].participantList) = 2
        /\ matching(games[gameId]) = {}
        /\ games[gameId].creatorClaimed
        /\ ~games[gameId].autoSettleEnabled
        /\ paid[gameId][games[gameId].creator] = games[gameId].totalPot

\* C6: after settlement a participant whose guess matched the outcome can
\* claim while unpaid, has been paid payoutPerWinner exactly when claimed,
\* and then fails with AlreadyClaimed; a participant whose guess did not
\* match fails with NotEligible and is paid nothing.
C6_WinnerClaimsOnce ==
    \A gameId \in GameIds :
        LET g == games[gameId]
        IN  g.settled =>
                \A a \in challengers(g) :
                    IF a \in matching(g)
                    THEN IF g.participants[a].claimed
                         THEN /\ paid[gameId][a] = g.payoutPerWinner
                              /\ claimWinningsError(gameId, a) = AlreadyClaimed
                         ELSE /\ paid[gameId][a] = 0
                              /\ claimWinningsError(gameId, a) = OK
                    ELSE /\ paid[gameId][a] = 0
                         /\ claimWinningsError(gameId, a) = NotEligible

\* what a game owes an identity at most
owed(g, a) ==
    IF a = g.creator THEN g.creatorShare + g.creatorBonusRemainder
    ELSE g.payoutPerWinner

\* C7: creatorClaimed and every participant's claimed never go from true to
\* false, and a game never sends an identity more than it owes it: the
\* creator creatorShare + creatorBonusRemainder (claimCreator and the payout
\* of revealCallback together), a participant payoutPerWinner.
C7_ClaimsArePaidOnce ==
    [][\A gameId \in GameIds :
          /\ games[gameId].creatorClaimed => games'[gameId].creatorClaimed
          /\ \A a \in Addr :
                /\ games[gameId].participants[a].claimed
                       => games'[gameId].participants[a].claimed
                /\ paid'[gameId][a] <= owed(games'[gameId], a)]_vars

C7_Witness ==
    \E gameId \in GameIds :
        /\ games[gameId].settled
        /\ games[gameId].creatorClaimed
        /\ paid[gameId][games[gameId].creator] = games[gameId].totalPot
        /\ games[gameId].totalPot > 0
        /\ balance >= games[gameId].totalPot

\* C8 as stated: on a settled game every reveal call fails with
\* AlreadySettled.
C8_RevealAfterSettledIsAlreadySettled ==
    \A gameId \in GameIds :
        (gameExists(gameId) /\ games[gameId].settled) =>
            /\ requestRevealError(gameId) = AlreadySettled
            /\ autoSettleError(gameId) = AlreadySettled
            /\ \A guesses \in GuessSeqs :
                  debugRevealError(gameId, guesses) = AlreadySettled
            /\ \A sender \in Addr, n \in Numbers, salt \in Salts :
                  fairRevealError(gameId, sender, n, salt) = AlreadySettled
            /\ \A requestId \in RequestIds :
                  (requestId + 1 \in DOMAIN oracle
                       /\ callbackGame(requestId) = gameId)
                      => revealCallbackError(requestId, oracle[requestId + 1], TRUE)
                             = AlreadySettled

\* C8 as amended: on a settled game every reveal call fails: requestReveal,
\* autoSettle and fairReveal with AlreadySettled, debugReveal with
\* AlreadySettled on a local chain and with DebugDisabled on any other, and
\* revealCallback for the game's request with NoPendingReveal.
C8_RevealAfterSettledFails ==
    \A gameId \in GameIds :
        (gameExists(gameId) /\ games[gameId].settled) =>
            /\ requestRevealError(gameId) = AlreadySettled
            /\ autoSettleError(gameId) = AlreadySettled
            /\ \A guesses \in GuessSeqs :
                  debugRevealError(gameId, guesses) =
                      IF isLocalChain THEN AlreadySettled ELSE DebugDisabled
            /\ \A sender \in Addr, n \in Numbers, salt \in Salts :
                  fairRevealError(gameId, sender, n, salt) = AlreadySettled
            /\ \A requestId \in RequestIds :
                  (requestId + 1 \in DOMAIN oracle
                       /\ callbackGame(requestId) = gameId)
                      => revealCallbackError(requestId, oracle[requestId + 1], TRUE)
                             = NoPendingReveal

C8_Witness ==
    \E gameId \in GameIds :
        /\ games[gameId].settled
        /\ Len(oracle) > 0
        /\ callbackGame(games[gameId].requestId) = gameId
        /\ ~isLocalChain

\* a Game record without its claimed flags
withoutClaimFlags(g) ==
    [g EXCEPT !.creatorClaimed = FALSE,
              !.participants = [a \in Addr |-> [@[a] EXCEPT !.claimed = FALSE]]]

\* C9: no step changes a field of a settled game other than the claimed
\* flags (totalPot, revealedNumber, numberIsBig, winnersCount, creatorShare,
\* payoutPerWinner, creatorBonusRemainder, participantList, won, guessedBig
\* and choiceRevealed among them), and a claim changes nothing but claimed
\* flags, the balance and the record of what was sent.
C9_SettledGameIsFrozen ==
    [][/\ \A gameId \in GameIds :
             games[gameId].settled
                 => withoutClaimFlags(games'[gameId]) = withoutClaimFlags(games[gameId])
       /\ \A gameId \in GameIds, sender \in Addr :
             (claimCreator(gameId, sender) \/ claimWinnings(gameId, sender))
                 => /\ \A id \in GameIds :
                          withoutClaimFlags(games'[id]) = withoutClaimFlags(games[id])
                    /\ balance' <= balance
                    /\ UNCHANGED <<now, chainid, nextGameId, requestToGame, oracle>>]_vars

C9_Witness ==
    \E gameId \in GameIds :
        /\ games[gameId].settled
        /\ games[gameId].creatorClaimed
        /\ Len(games[gameId].participantList) > 0
        /\ isLocalChain
        /\ balance < games[gameId].totalPot

\* the lifecycle state of a game
phase(g) ==
    IF g.settled /\ g.revealPending THEN "SettledAndPending"
    ELSE IF g.settled THEN "Settled"
    ELSE IF g.revealPending THEN "RevealPending"
    ELSE "Open"

\* C10 as stated: a game only goes Open -> RevealPending -> Settled.
C10_LifecycleThroughPending ==
    [][\A gameId \in GameIds :
          <<phase(games[gameId]), phase(games'[gameId])>> \in
              {<<"Open", "Open">>, <<"Open", "RevealPending">>,
               <<"RevealPending", "RevealPending">>,
               <<"RevealPending", "Settled">>, <<"Settled", "Settled">>}]_vars

\* C10 as amended: a game goes from Open to RevealPending on a reveal
\* request, becomes Settled from RevealPending or straight from Open, the
\* latter through fairReveal or debugReveal only, and never leaves Settled.
C10_Lifecycle ==
    [][\A gameId \in GameIds :
          /\ <<phase(games[gameId]), phase(games'[gameId])>> \in
                 {<<"Open", "Open">>, <<"Open", "RevealPending">>,
                  <<"Open", "Settled">>, <<"RevealPending", "RevealPending">>,
                  <<"RevealPending", "Settled">>, <<"Settled", "Settled">>}
          /\ (phase(games[gameId]) = "Open" /\ phase(games'[gameId]) = "Settled")
                 => \/ \E sender \in Addr, n \in Numbers, salt \in Salts :
                           fairReveal(gameId, sender, n, salt)
                    \/ \E n \in Numbers, guesses \in GuessSeqs :
                           debugReveal(gameId, n, guesses)]_vars

C10_Witness ==
    \E gameId \in GameIds :
        /\ phase(games[gameId]) = "Settled"
        /\ Len(oracle) = 0
        /\ ~isLocalChain

\* the stakes of the first k participants of a game, added up
RECURSIVE sumStakes(_, _)
sumStakes(g, k) ==
    IF k = 0 THEN 0
    ELSE g.participants[g.participantList[k]].stake + sumStakes(g, k - 1)

\* C11: after every step each game has totalPot = rewardPool + the sum of
\* its participants' stakes; totalPot is rewardPool right after createGame,
\* grows by exactly the stake sent on a joinGame, and no other step changes
\* it.
C11_TotalPotIsRewardPlusStakes ==
    [][\A gameId \in GameIds :
          LET g == games[gameId]
              h == games'[gameId]
          IN  /\ h.totalPot = h.rewardPool + sumStakes(h, Len(h.participantList))
              /\ IF gameId = nextGameId /\ nextGameId' = nextGameId + 1
                 THEN h.totalPot = h.rewardPool /\ balance' = balance + h.rewardPool
                 ELSE IF Len(h.participantList) = Len(g.participantList) + 1
                 THEN LET sender == h.participantList[Len(h.participantList)]
                      IN  /\ h.totalPot = g.totalPot + h.participants[sender].stake
                          /\ balance' = balance + h.participants[sender].stake
                 ELSE h.totalPot = g.totalPot]_vars

C11_Witness ==
    \E gameId \in GameIds :
        /\ games[gameId].settled
        /\ games[gameId].creatorClaimed
        /\ Len(games[gameId].participantList) = 2
        /\ games[gameId].rewardPool = MIN_CREATOR_REWARD + 1
        /\ games[gameId].totalPot = MIN_CREATOR_REWARD + 1 + 2 * MIN_STAKE

\* C12: on an existing game joinGame fails with MatchClosed when now >=
\* endTime; before endTime it fails with CreatorCannotJoin for the creator,
\* with AlreadyJoined for an identity that has joined, and with
\* InsufficientStake for any other identity sending less than minStake; a
\* failing call takes no step, so it changes nothing.
C12_JoinGameErrors ==
    \A gameId \in GameIds, sender \in Addr, value \in Stakes :
        gameExists(gameId) =>
            LET g == games[gameId]
                e == joinGameError(gameId, sender, value)
            IN  /\ now >= g.endTime => e = MatchClosed
                /\ (now < g.endTime /\ sender = g.creator) => e = CreatorCannotJoin
                /\ (now < g.endTime /\ g.participants[sender].exists)
                       => e = AlreadyJoined
                /\ (now < g.endTime /\ sender # g.creator
                        /\ ~g.participants[sender].exists /\ value < g.minStake)
                       => e = InsufficientStake
                /\ e # OK => \A guess \in BOOLEAN :
                                 ~ENABLED joinGame(gameId, sender, guess, value)

C12_Witness ==
    \E gameId \in GameIds, a \in Addr, b \in Addr :
        /\ gameExists(gameId)
        /\ now < games[gameId].endTime
        /\ joinGameError(gameId, games[gameId].creator, MIN_STAKE) = CreatorCannotJoin
        /\ joinGameError(gameId, a, MIN_STAKE) = AlreadyJoined
        /\ joinGameError(gameId, b, MIN_STAKE - 1) = InsufficientStake

\* C13: on an existing game a fairReveal whose (number, salt) pair does not
\* hash to the stored commitment always fails and changes nothing, with
\* HashMismatch when the creator calls it on an unsettled game at or after
\* endTime; fairReveal can take a step only with a pair that hashes to the
\* commitment.
C13_FairRevealNeedsCommitment ==
    \A gameId \in GameIds, sender \in Addr, n \in Numbers, salt \in Salts :
        /\ (gameExists(gameId)
                /\ keccak256Packed(n, salt) # games[gameId].secretNumberHash)
               => /\ fairRevealError(gameId, sender, n, salt) # OK
                  /\ (~games[gameId].settled /\ now >= games[gameId].endTime
                          /\ sender = games[gameId].creator)
                         => fairRevealError(gameId, sender, n, salt) = HashMismatch
        /\ ENABLED fairReveal(gameId, sender, n, salt)
               => keccak256Packed(n, salt) = games[gameId].secretNumberHash

C13_Witness ==
    \E gameId \in GameIds, n \in Numbers, salt \in Salts :
        /\ gameExists(gameId)
        /\ ~games[gameId].settled
        /\ games[gameId].secretNumberHash # keccak256Packed(games[gameId].secretNumber, 0)
        /\ fairRevealError(gameId, games[gameId].creator, n, salt) = HashMismatch

\* C14: fairReveal on an existing game goes through only for the creator, at
\* or after endTime, on an unsettled game; on an unsettled game it fails with
\* RoundActive before endTime and, from endTime on, with UnauthorizedReveal
\* for any identity but the creator; a failing call changes nothing.
C14_FairRevealAuthorization ==
    \A gameId \in GameIds, sender \in Addr, n \in Numbers, salt \in Salts :
        gameExists(gameId) =>
            LET g == games[gameId]
                e == fairRevealError(gameId, sender, n, salt)
            IN  /\ e = OK => (sender = g.creator /\ now >= g.endTime /\ ~g.settled)
                /\ (~g.settled /\ now < g.endTime) => e = RoundActive
                /\ (~g.settled /\ now >= g.endTime /\ sender # g.creator)
                       => e = UnauthorizedReveal
                /\ ENABLED fairReveal(gameId, sender, n, salt) <=> e = OK

C14_Witness ==
    \E gameId \in GameIds, a \in Addr :
        /\ gameExists(gameId)
        /\ ~games[gameId].settled
        /\ now >= games[gameId].endTime
        /\ games[gameId].participants[a].exists
        /\ fairRevealError(gameId, a, games[gameId].secretNumber, 0) = UnauthorizedReveal
        /\ fairRevealError(gameId, games[gameId].creator, games[gameId].secretNumber, 0) = OK

\* C15: on a chain that is neither 31337 nor 1337 every debugReveal fails
\* (with DebugDisabled on an existing game) and changes nothing: debugReveal
\* can take no step there.
C15_DebugRevealOnlyOnLocalChains ==
    ~isLocalChain =>
        \A gameId \in GameIds, n \in Numbers, guesses \in GuessSeqs :
            /\ debugRevealError(gameId, guesses) =
                   IF gameExists(gameId) THEN DebugDisabled ELSE GameNotFound
            /\ ~ENABLED debugReveal(gameId, n, guesses)

C15_Witness ==
    \E gameId \in GameIds :
        /\ ~isLocalChain
        /\ gameExists(gameId)
        /\ ~games[gameId].settled
        /\ ~games[gameId].revealPending
        /\ now >= games[gameId].endTime
        /\ Len(games[gameId].participantList) = 1

\* the request ids the oracle has accepted
recorded(requestId) == requestId + 1 \in DOMAIN oracle

\* the requests submitted for a game
requestsOf(gameId) ==
    {requestId \in CallbackIds :
        recorded(requestId) /\ callbackGame(requestId) = gameId}

\* C16: no game ever has more than one decryption request submitted for it;
\* requestReveal fails with RevealAlreadyPending while the game's reveal is
\* pending and with AlreadySettled once it is settled, and autoSettle on a
\* pending game submits nothing.
C16_OneRequestPerGame ==
    \A gameId \in GameIds :
        /\ Cardinality(requestsOf(gameId)) <= 1
        /\ Len(oracle) <= nextGameId
        /\ gameExists(gameId) =>
              /\ games[gameId].settled => requestRevealError(gameId) = AlreadySettled
              /\ (games[gameId].revealPending /\ ~games[gameId].settled)
                     => requestRevealError(gameId) = RevealAlreadyPending
              /\ (games[gameId].revealPending \/ games[gameId].settled)
                     => /\ ~ENABLED requestReveal(gameId)
                        /\ ~ENABLED (autoSettle(gameId) /\ oracle' # oracle)

C16_Witness ==
    \E gameId \in GameIds, other \in GameIds :
        /\ games[gameId].settled
        /\ Cardinality(requestsOf(gameId)) = 1
        /\ games[other].revealPending
        /\ Cardinality(requestsOf(other)) = 1
        /\ ENABLED autoSettle(other)

\* C17: a revealCallback step settles the game its request id was recorded
\* for by that game's own reveal request, and changes no other game; a
\* callback whose request id was never recorded, or is no longer the pending
\* request of its game, is rejected whatever its cleartexts and proof.
C17_CallbackCorrelatesByRequestId ==
    /\ [](\A requestId \in CallbackIds :
             LET g == games[callbackGame(requestId)]
             IN  (~recorded(requestId) \/ g.requestId # requestId
                      \/ ~g.revealPending) =>
                     \A cleartexts \in Cleartexts, proofValid \in BOOLEAN :
                         revealCallbackError(requestId, cleartexts, proofValid) =
                             IF g.revealPending THEN InvalidProof
                             ELSE NoPendingReveal)
    /\ [][\A requestId \in CallbackIds :
             games[callbackGame(requestId)].revealPending =>
                 \A cleartexts \in Cleartexts, proofValid \in BOOLEAN :
                     revealCallback(requestId, cleartexts, proofValid) =>
                         /\ recorded(requestId)
                         /\ games[callbackGame(requestId)].requestId = requestId
                         /\ games'[callbackGame(requestId)].settled
                         /\ \A id \in GameIds \ {callbackGame(requestId)} :
                                games'[id] = games[id]]_vars

C17_Witness ==
    \E gameId \in GameIds :
        /\ gameId # 0
        /\ games[gameId].settled
        /\ games[gameId].requestId = 0
        /\ recorded(0)
        /\ callbackGame(0) = gameId
        /\ games[0].revealPending
        /\ games[0].requestId = 1
        /\ callbackGame(MaxGames) = 0

\* C18: on a game whose reveal is pending, a revealCallback whose proof does
\* not authenticate its cleartexts for its request id fails with the
\* signature error and changes nothing; every revealCallback step carries
\* the cleartexts the oracle produced for that request, which are the
\* decryptions of the game's secret and choices.
C18_CallbackNeedsOracleProof ==
    /\ [](\A requestId \in CallbackIds :
             games[callbackGame(requestId)].revealPending =>
                 \A cleartexts \in Cleartexts, proofValid \in BOOLEAN :
                     ~(proofValid /\ recorded(requestId)
                           /\ cleartexts = oracle[requestId + 1])
                         => /\ revealCallbackError(requestId, cleartexts, proofValid)
                                = InvalidProof
                            /\ ~ENABLED revealCallback(requestId, cleartexts, proofValid))
    /\ [][\A requestId \in CallbackIds :
             games[callbackGame(requestId)].revealPending =>
                 \A cleartexts \in Cleartexts, proofValid \in BOOLEAN :
                     revealCallback(requestId, cleartexts, proofValid) =>
                         /\ proofValid
                         /\ recorded(requestId)
                         /\ cleartexts = oracle[requestId + 1]
                         /\ cleartexts = requestedCleartexts(games[callbackGame(requestId)])
                         /\ games'[callbackGame(requestId)].revealedNumber
                                = games[callbackGame(requestId)].secretNumber]_vars

C18_Witness ==
    \E gameId \in GameIds :
        /\ games[gameId].settled
        /\ recorded(games[gameId].requestId)
        /\ callbackGame(games[gameId].requestId) = gameId
        /\ Len(games[gameId].participantList) = 2
        /\ ~isLocalChain
        /\ games[gameId].revealedNumber = games[gameId].secretNumber
        /\ games[gameId].secretNumberHash # keccak256Packed(games[gameId].secretNumber, 0)

\* C19: a revealCallback step on a game with autoSettleEnabled sends the
\* creator creatorShare + creatorBonusRemainder and sets creatorClaimed, so
\* that claimCreator then fails with AlreadyClaimed; on a game without
\* autoSettleEnabled it sends nothing and leaves creatorClaimed false.
C19_CallbackPaysCreatorWhenAuto ==
    [][\A requestId \in CallbackIds :
          games[callbackGame(requestId)].revealPending =>
              \A cleartexts \in Cleartexts, proofValid \in BOOLEAN :
                  revealCallback(requestId, cleartexts, proofValid) =>
                      LET gameId == callbackGame(requestId)
                          g == games[gameId]
                          h == games'[gameId]
                          creatorPayout == h.creatorShare + h.creatorBonusRemainder
                      IN  IF g.autoSettleEnabled
                          THEN /\ h.creatorClaimed
                               /\ creatorPayout > 0
                               /\ balance' = balance - creatorPayout
                               /\ paid' = [paid EXCEPT ![gameId][g.creator] =
                                              @ + creatorPayout]
                               /\ claimCreatorError(gameId, g.creator)' = AlreadyClaimed
                          ELSE /\ ~h.creatorClaimed
                               /\ balance' = balance
                               /\ paid' = paid
                               /\ claimCreatorError(gameId, g.creator)' = OK]_vars

C19_Witness ==
    \E gameId \in GameIds :
        /\ games[gameId].settled
        /\ games[gameId].autoSettleEnabled
        /\ games[gameId].creatorClaimed
        /\ ~isLocalChain
        /\ recorded(games[gameId].requestId)
        /\ games[gameId].revealedNumber = games[gameId].secretNumber
        /\ games[gameId].secretNumberHash # keccak256Packed(games[gameId].secretNumber, 0)
        /\ Len(games[gameId].participantList) = 1
        /\ paid[gameId][games[gameId].creator] = games[gameId].totalPot
        /\ claimCreatorError(gameId, games[gameId].creator) = AlreadyClaimed

\* C20: a revealCallback step on a game with autoSettleEnabled sends the
\* rewards to the creator and to every participant whose guess matched the
\* outcome, each of whom ends up paid and marked claimed, so that none of
\* them has a claim left to make.
C20_CallbackPaysWinnersWhenAuto ==
    [][\A requestId \in CallbackIds :
          games[callbackGame(requestId)].revealPending =>
              \A cleartexts \in Cleartexts, proofValid \in BOOLEAN :
                  (/\ revealCallback(requestId, cleartexts, proofValid)
                   /\ games[callbackGame(requestId)].autoSettleEnabled) =>
                      LET gameId == callbackGame(requestId)
                          h == games'[gameId]
                      IN  /\ h.creatorClaimed
                          /\ paid'[gameId][h.creator] > 0
                          /\ \A a \in matching(h) :
                                /\ paid'[gameId][a] > 0
                                /\ h.participants[a].claimed]_vars

\* C21: a game whose reveal is pending is eventually settled, given that the
\* oracle delivers the callback of every request it accepted, whether or not
\* the game has autoSettleEnabled and its creator refuses incoming value.
C21_PendingLeadsToSettled ==
    \A gameId \in GameIds :
        games[gameId].revealPending ~> games[gameId].settled

\* C22: whenever a transfer the contract makes is in flight, the entry point
\* that makes it holds the reentrancy guard.
C22_GuardHeldDuringTransfers ==
    \A i \in DOMAIN inFlight : inFlight[i].guarded /\ entered

\* the paid flag of the identity a transfer in flight goes to
paidFlag(transfer) ==
    IF transfer.to = games[transfer.gameId].creator
    THEN games[transfer.gameId].creatorClaimed
    ELSE games[transfer.gameId].participants[transfer.to].claimed

\* C23: while a transfer is in flight the paid flag of its game and
\* recipient is already set and no second transfer for the same game and
\* recipient is in flight; whatever is called in the meantime, a game never
\* sends an identity more than it owes it.
C23_FlagSetBeforeTransfer ==
    /\ \A i \in DOMAIN inFlight :
          /\ paidFlag(inFlight[i])
          /\ \A j \in DOMAIN inFlight :
                (inFlight[j].gameId = inFlight[i].gameId
                     /\ inFlight[j].to = inFlight[i].to) => j = i
    /\ \A gameId \in GameIds, a \in Addr :
          paid[gameId][a] <= owed(games[gameId], a)

C23_Witness ==
    /\ Len(inFlight) = 2
    /\ ~inFlight[1].guarded
    /\ inFlight[2].guarded
    /\ inFlight[1].to = inFlight[2].to
    /\ inFlight[1].gameId # inFlight[2].gameId

\* C24: on a settled game whose creator has not claimed, outside any other
\* claim, claimCreator fails with TransferFailed while the creator refuses
\* incoming value, which leaves creatorClaimed false and the balance whole,
\* and goes through as soon as the creator accepts it; claimWinnings fails
\* with TransferFailed in no other case than its transfer failing.
C24_FailedTransferFailsTheClaim ==
    \A gameId \in GameIds :
        LET g == games[gameId]
            amount == g.creatorShare + g.creatorBonusRemainder
        IN  /\ (gameExists(gameId) /\ g.settled /\ ~g.creatorClaimed /\ ~entered) =>
                  /\ paid[gameId][g.creator] = 0
                  /\ balance >= amount
                  /\ IF g.creator \in rejecting
                     THEN /\ claimCreatorError(gameId, g.creator) = TransferFailed
                          /\ ~ENABLED claimCreatorCall(gameId, g.creator)
                     ELSE /\ claimCreatorError(gameId, g.creator) = OK
                          /\ ENABLED claimCreatorCall(gameId, g.creator)
            /\ \A a \in Addr :
                  claimWinningsError(gameId, a) = TransferFailed =>
                      /\ a \in rejecting
                      /\ g.participants[a].won /\ ~g.participants[a].claimed
                      /\ ~ENABLED claimWinningsCall(gameId, a)

C24_Witness ==
    \E gameId \in GameIds :
        /\ games[gameId].settled
        /\ ~games[gameId].creatorClaimed
        /\ games[gameId].creator \in rejecting
        /\ claimCreatorError(gameId, games[gameId].creator) = TransferFailed
        /\ balance >= games[gameId].totalPot
        /\ \E other \in GameIds :
              games[other].creatorClaimed /\ paid[other][games[other].creator] > 0

\* C25: createGame goes through exactly when endTime > now + 60,
\* minStake >= MIN_STAKE, rewardPool >= MIN_CREATOR_REWARD and the value sent
\* equals rewardPool; otherwise it fails with the reason of the first of these
\* that does not hold (an end time of exactly now + 60 is too soon), and a
\* failing call has no step: no game is made and nextGameId stays.
C25_CreateGameAcceptsExactly ==
    \A endTime \in EndTimes, minStake \in MinStakes, rewardPool \in RewardPools, value \in RewardPools :
        LET error == createGameError(endTime, minStake, rewardPool, value)
            accepted == /\ endTime > now + 60
                        /\ minStake >= MIN_STAKE
                        /\ rewardPool >= MIN_CREATOR_REWARD
                        /\ value = rewardPool
        IN  /\ (error = OK) <=> accepted
            /\ endTime <= now + 60 => error = EndTimeTooSoon
            /\ (endTime > now + 60 /\ minStake < MIN_STAKE) => error = StakeFloorViolation
            /\ (endTime > now + 60 /\ minStake >= MIN_STAKE
                    /\ rewardPool < MIN_CREATOR_REWARD) => error = RewardFloorViolation
            /\ (endTime > now + 60 /\ minStake >= MIN_STAKE
                    /\ rewardPool >= MIN_CREATOR_REWARD
                    /\ value # rewardPool) => error = FundingMismatch
            /\ accepted <=> ENABLED createGame(1, 6, keccak256Packed(6, 0), minStake, endTime, rewardPool, FALSE, value)

C25_Witness ==
    /\ nextGameId = 1
    /\ games[0].creator = 1
    /\ games[0].endTime = games[0].createdAt + 61
    /\ games[0].minStake = MIN_STAKE
    /\ games[0].rewardPool = MIN_CREATOR_REWARD
    /\ balance = MIN_CREATOR_REWARD
    /\ now = games[0].createdAt
    /\ createGameError(now + 60, MIN_STAKE, MIN_CREATOR_REWARD, MIN_CREATOR_REWARD) = EndTimeTooSoon

\* the ids under which a game is stored
created == {gameId \in GameIds : games[gameId].creator # 0}

\* C26: the stored games are those with the ids 0 .. totalGames - 1; a step
\* that changes totalGames adds one to it and stores one new game under the
\* old value, a step that stores no new game leaves totalGames alone, and a
\* stored game keeps its id and creator for good.
C26_IdsAreSequential ==
    [][/\ created' = {gameId \in GameIds : gameId < totalGames'}
       /\ Cardinality(created') = totalGames'
       /\ totalGames' # totalGames =>
              /\ totalGames' = totalGames + 1
              /\ created' = created \cup {totalGames}
              /\ totalGames \notin created
       /\ created' = created => totalGames' = totalGames
       /\ \A gameId \in created :
              /\ gameId \in created'
              /\ games'[gameId].creator = games[gameId].creator
              /\ games'[gameId].createdAt = games[gameId].createdAt]_vars

C26_Witness ==
    /\ totalGames = 2
    /\ created = {0, 1}
    /\ games[0].settled
    /\ ~games[1].settled

\* C27: in a settled game numberIsBig says whether revealedNumber is above 5:
\* false for 5, true for 6, whichever entry point settled the game.
C27_BigMeansAboveFive ==
    \A gameId \in GameIds :
        games[gameId].settled =>
            /\ games[gameId].numberIsBig = (games[gameId].revealedNumber > 5)
            /\ games[gameId].revealedNumber = 5 => ~games[gameId].numberIsBig
            /\ games[gameId].revealedNumber = 6 => games[gameId].numberIsBig

C27_Witness ==
    \E gameId \in GameIds :
        /\ games[gameId].settled
        /\ games[gameId].revealedNumber = 5
        /\ ~games[gameId].numberIsBig
        /\ Len(oracle) > 0

\* C28: no game is settled and waiting for a reveal at once.
C28_NeverSettledAndPending ==
    \A gameId \in GameIds :
        ~(games[gameId].settled /\ games[gameId].revealPending)

C28_Witness ==
    \E gameId \in GameIds :
        /\ games[gameId].settled
        /\ ~games[gameId].revealPending
        /\ callbackGame(games[gameId].requestId) = gameId
        /\ Len(oracle) > 0
        /\ Len(games[gameId].participantList) = 1

\* C29: on a game that is not settled claimCreator and claimWinnings fail
\* with NotSettled for every caller, and on a settled game claimCreator
\* fails with Unauthorized for every caller but the creator; a failing claim
\* has no step, so it changes no flag and sends nothing.
C29_ClaimsNeedSettlementAndCreator ==
    \A gameId \in GameIds, sender \in Addr :
        gameExists(gameId) =>
            /\ ~games[gameId].settled =>
                  /\ claimCreatorError(gameId, sender) = NotSettled
                  /\ claimWinningsError(gameId, sender) = NotSettled
                  /\ ~ENABLED claimCreator(gameId, sender)
                  /\ ~ENABLED claimWinnings(gameId, sender)
                  /\ ~games[gameId].creatorClaimed
                  /\ ~games[gameId].participants[sender].claimed
                  /\ paid[gameId][sender] = 0
            /\ (games[gameId].settled /\ sender # games[gameId].creator) =>
                  /\ claimCreatorError(gameId, sender) = Unauthorized
                  /\ ~ENABLED claimCreator(gameId, sender)

C29_Witness ==
    \E gameId \in GameIds, other \in GameIds :
        /\ gameExists(gameId)
        /\ ~games[gameId].settled
        /\ games[gameId].revealPending
        /\ Len(games[gameId].participantList) = 1
        /\ claimWinningsError(gameId, games[gameId].participantList[1]) = NotSettled
        /\ claimCreatorError(gameId, games[gameId].creator) = NotSettled
        /\ games[other].settled
        /\ Len(games[other].participantList) = 1
        /\ claimCreatorError(other, games[other].participantList[1]) = Unauthorized

\* the identities in a participantList
listed(g) == {g.participantList[i] : i \in DOMAIN g.participantList}

\* C30: participantList holds, without repeats, exactly the identities whose
\* participant record exists, never the creator; a step only ever appends one
\* identity to it, and does so exactly when it is a joinGame of that game.
C30_ParticipantListIsJoinOrder ==
    [][\A gameId \in GameIds :
          LET before == games[gameId].participantList
              after == games'[gameId].participantList
          IN  /\ Cardinality(listed(games'[gameId])) = Len(after)
              /\ listed(games'[gameId]) =
                     {a \in Addr : games'[gameId].participants[a].exists}
              /\ games'[gameId].creator \notin listed(games'[gameId])
              /\ Len(after) >= Len(before)
              /\ SubSeq(after, 1, Len(before)) = before
              /\ Len(after) <= Len(before) + 1
              /\ Len(after) = Len(before) + 1 <=>
                     \E sender \in Addr, guess \in BOOLEAN, value \in Stakes :
                         joinGame(gameId, sender, guess, value)]_vars

C30_Witness ==
    \E gameId \in GameIds :
        /\ games[gameId].participantList = <<3, 2>>
        /\ games[gameId].participants[3].exists
        /\ games[gameId].participants[2].exists
        /\ ~games[gameId].participants[1].exists
        /\ games[gameId].creator = 1

\* C31: while a reveal is pending the oracle holds for the game's request one
\* batch, the secret and then one choice per participant in participantList
\* order, and neither the list nor a choice changes; a revealCallback step
\* then records for every participant the guess that participant submitted.
C31_CallbackRecordsOwnGuesses ==
    [][\A gameId \in GameIds :
          LET g == games[gameId]
              after == games'[gameId]
          IN  /\ after.revealPending =>
                     /\ after.requestId + 1 \in DOMAIN oracle'
                     /\ oracle'[after.requestId + 1].secret = after.secretNumber
                     /\ Len(oracle'[after.requestId + 1].guesses) = Len(after.participantList)
                     /\ \A i \in DOMAIN after.participantList :
                            oracle'[after.requestId + 1].guesses[i] =
                                after.participants[after.participantList[i]].choice
              /\ (g.revealPending /\ after.revealPending) =>
                     /\ after.participantList = g.participantList
                     /\ \A a \in Addr : after.participants[a].choice = g.participants[a].choice
              /\ (\E cleartexts \in Cleartexts, proofValid \in BOOLEAN :
                      revealCallback(g.requestId, cleartexts, proofValid)
                          /\ callbackGame(g.requestId) = gameId) =>
                     \A i \in DOMAIN g.participantList :
                         /\ after.participants[g.participantList[i]].choiceRevealed
                         /\ after.participants[g.participantList[i]].guessedBig =
                                g.participants[g.participantList[i]].choice]_vars

C31_Witness ==
    \E gameId \in GameIds :
        /\ ~isLocalChain
        /\ games[gameId].settled
        /\ Len(oracle) > 0
        /\ games[gameId].participantList = <<2, 3>>
        /\ games[gameId].participants[2].choice
        /\ ~games[gameId].participants[3].choice
        /\ games[gameId].participants[2].guessedBig
        /\ ~games[gameId].participants[3].guessedBig
        /\ games[gameId].participants[3].choiceRevealed

\* C32: a fairReveal step records for every participant the guess that
\* participant submitted in joinGame.
C32_FairRevealRecordsOwnGuesses ==
    [][\A gameId \in GameIds :
          (\E sender \in Addr, n \in Numbers, salt \in Salts :
               fairReveal(gameId, sender, n, salt)) =>
              \A i \in DOMAIN games[gameId].participantList :
                  LET a == games[gameId].participantList[i]
                  IN  games'[gameId].participants[a].guessedBig =
                          games[gameId].participants[a].choice]_vars

\* C33: off the local chains a game whose reveal is pending is settled by
\* revealCallback steps only.
C33_PendingSettledOnlyByCallback ==
    [][\A gameId \in GameIds :
          (~isLocalChain /\ games[gameId].revealPending /\ games'[gameId].settled) =>
              \E cleartexts \in Cleartexts, proofValid \in BOOLEAN :
                  /\ callbackGame(games[gameId].requestId) = gameId
                  /\ revealCallback(games[gameId].requestId, cleartexts, proofValid)]_vars

C35_RevealedNumberInRange ==
    \A gameId \in GameIds :
        games[gameId].settled => games[gameId].revealedNumber \in 1..10

\* C36: a game with a reveal pending or settled is at or past its endTime;
\* before endTime requestReveal, autoSettle, debugReveal and fairReveal on an
\* existing game fail and have no step; so joinGame never fails for a
\* settlement in progress.
C36_NoRevealBeforeEndTime ==
    \A gameId \in GameIds :
        LET g == games[gameId]
        IN  /\ (g.revealPending \/ g.settled) => now >= g.endTime
            /\ (gameExists(gameId) /\ now < g.endTime) =>
                   /\ requestRevealError(gameId) = RoundStillActive
                   /\ autoSettleError(gameId) = RoundStillActive
                   /\ ~ENABLED requestReveal(gameId)
                   /\ ~ENABLED autoSettle(gameId)
                   /\ \A guesses \in GuessSeqs :
                          /\ debugRevealError(gameId, guesses) =
                                 IF isLocalChain THEN RoundActive ELSE DebugDisabled
                          /\ ~ENABLED debugReveal(gameId, 6, guesses)
                   /\ \A sender \in Addr, salt \in Salts :
                          /\ fairRevealError(gameId, sender, 6, salt) = RoundActive
                          /\ ~ENABLED fairReveal(gameId, sender, 6, salt)
            /\ \A sender \in Addr, value \in Stakes :
                   joinGameError(gameId, sender, value) # SettlementInProgress

C36_Witness ==
    \E gameId \in GameIds :
        /\ gameExists(gameId)
        /\ now > 0
        /\ now < games[gameId].endTime
        /\ Len(games[gameId].participantList) = 1
        /\ requestRevealError(gameId) = RoundStillActive
        /\ fairRevealError(gameId, games[gameId].creator, 6, 0) = RoundActive

RECURSIVE paidOut(_, _)
paidOut(gameId, k) == IF k = 0 THEN 0 ELSE paid[gameId][k] + paidOut(gameId, k - 1)

\* what the games 0 .. k - 1 still hold: each pot less what the game paid
RECURSIVE held(_)
held(k) ==
    IF k = 0 THEN 0
    ELSE games[k - 1].totalPot - paidOut(k - 1, NumAddr) + held(k - 1)

\* C38: the balance is the sum over the games of the pot less what the game
\* has paid out, no game has paid out more than its pot, and a claim that
\* passes every require finds its amount in the balance.
C38_Solvency ==
    /\ balance = held(MaxGames)
    /\ \A gameId \in GameIds :
          /\ paidOut(gameId, NumAddr) <= games[gameId].totalPot
          /\ \A sender \in Addr :
                /\ claimCreatorError(gameId, sender) = OK =>
                       /\ games[gameId].creatorShare + games[gameId].creatorBonusRemainder
                              <= games[gameId].totalPot - paidOut(gameId, NumAddr)
                       /\ ENABLED claimCreator(gameId, sender)
                /\ claimWinningsError(gameId, sender) = OK =>
                       /\ games[gameId].payoutPerWinner
                              <= games[gameId].totalPot - paidOut(gameId, NumAddr)
                       /\ ENABLED claimWinnings(gameId, sender)

C38_Witness ==
    /\ nextGameId = 2
    /\ games[0].settled
    /\ games[0].creatorClaimed
    /\ paid[0][games[0].creator] = games[0].totalPot
    /\ Len(games[0].participantList) = 1
    /\ games[1].settled
    /\ ~games[1].creatorClaimed
    /\ balance = games[1].totalPot
    /\ claimCreatorError(1, games[1].creator) = OK

\* C39: a game that is not settled has creatorClaimed false, its
\* winnersCount, creatorShare, payoutPerWinner and creatorBonusRemainder at 0
\* and every participant with won, claimed and choiceRevealed false; and a
\* participant with claimed true is one who won a settled game.
C39_UnsettledGameHasNoOutcome ==
    \A gameId \in GameIds :
        LET g == games[gameId]
        IN  /\ ~g.settled =>
                   /\ ~g.creatorClaimed
                   /\ g.winnersCount = 0
                   /\ g.creatorShare = 0
                   /\ g.payoutPerWinner = 0
                   /\ g.creatorBonusRemainder = 0
                   /\ \A a \in Addr :
                          /\ ~g.participants[a].won
                          /\ ~g.participants[a].claimed
                          /\ ~g.participants[a].choiceRevealed
            /\ \A a \in Addr :
                   g.participants[a].claimed => (g.settled /\ g.participants[a].won)

C39_Witness ==
    \E gameId \in GameIds, other \in GameIds :
        /\ gameExists(gameId)
        /\ ~games[gameId].settled
        /\ games[gameId].revealPending
        /\ games[gameId].participants[2].exists
        /\ games[gameId].totalPot > games[gameId].rewardPool
        /\ games[other].settled
        /\ games[other].creatorClaimed
        /\ games[other].participants[2].choiceRevealed

\* a step of an operation addressed to a game: a call with that game's id,
\* a revealCallback with the id of that game's request, or the createGame
\* that stores the game (a call is looked for with the guess or the number
\* the step stores and, for debugReveal, with one guess per participant,
\* without which it has no step)
addressedTo(gameId) ==
    \/ gameId = nextGameId /\ nextGameId' = nextGameId + 1
    \/ /\ games[gameId].revealPending
       /\ \E cleartexts \in Cleartexts, proofValid \in BOOLEAN :
              revealCallback(games[gameId].requestId, cleartexts, proofValid)
    \/ /\ gameExists(gameId)
       /\ \/ \E sender \in Addr, value \in Stakes :
                 joinGame(gameId, sender, games'[gameId].participants[sender].choice, value)
          \/ requestReveal(gameId)
          \/ autoSettle(gameId)
          \/ \E guesses \in [1..Len(games[gameId].participantList) -> BOOLEAN] :
                 debugReveal(gameId, games'[gameId].revealedNumber, guesses)
          \/ \E sender \in Addr, salt \in Salts :
                 fairReveal(gameId, sender, games'[gameId].revealedNumber, salt)
          \/ \E sender \in Addr : claimCreator(gameId, sender) \/ claimWinnings(gameId, sender)

\* C40: a step of an operation addressed to one game leaves the record and
\* the payments of every other game as they were, and no step changes the
\* creator, minStake, endTime, createdAt, rewardPool or commitment of a game
\* that exists.
C40_GamesAreIsolated ==
    [][/\ \A gameId \in GameIds :
              (\A other \in GameIds \ {gameId} :
                   games'[other] = games[other] /\ paid'[other] = paid[other])
                  \/ ~addressedTo(gameId)
       /\ \A gameId \in GameIds :
              gameExists(gameId) =>
                  /\ games'[gameId].creator = games[gameId].creator
                  /\ games'[gameId].minStake = games[gameId].minStake
                  /\ games'[gameId].endTime = games[gameId].endTime
                  /\ games'[gameId].createdAt = games[gameId].createdAt
                  /\ games'[gameId].rewardPool = games[gameId].rewardPool
                  /\ games'[gameId].secretNumberHash = games[gameId].secretNumberHash]_vars

C40_Witness ==
    /\ nextGameId = 2
    /\ games[0].settled
    /\ games[0].creatorClaimed
    /\ Len(games[0].participantList) = 0
    /\ Len(oracle) = 1
    /\ ~games[1].settled
    /\ ~games[1].revealPending
    /\ Len(games[1].participantList) = 1
    /\ games[1].totalPot = MIN_CREATOR_REWARD + MIN_STAKE
    /\ paid[1][games[1].creator] = 0

====
